---- MODULE Spec2Model ----
(***************************************************************************)
(* Table-of-contents crawler action (tocCrawler) of                        *)
(* packages/skeleton/src/lib/utilities/TableOfContents/crawler.ts.         *)
(*                                                                         *)
(* The action scans a container for heading elements, optionally assigns   *)
(* generated ids, publishes the ordered heading list to tocStore and       *)
(* creates one IntersectionObserver per heading whose callback maintains   *)
(* tocActiveId.  Strings are sequences of one-character strings.  The      *)
(* closure runs on one thread: init() is followed through its statements   *)
(* with a program counter, and the platform delivers intersection entries  *)
(* only between handlers and only to observers that are observing.         *)
(***************************************************************************)
EXTENDS Integers, Sequences, FiniteSets, TLC

VARIABLES
    dom,                 \* the heading elements of the container, in document order
    dom0,                \* the container as it was handed to the action
    args,                \* closure parameter `args`
    queryElements,       \* closure local `queryElements`
    scrollTarget,        \* closure local `scrollTarget`
    headings,            \* closure local `headings`: static NodeList (positions in dom)
    permalinks,          \* closure local `permalinks`
    permalinksRef,       \* identity of the array `permalinks` refers to (cycle of creation)
    observers,           \* closure local `observers`: references into watchers
    watchers,            \* every IntersectionObserver constructed so far
    tocStore,            \* value held by the tocStore writable
    storeRef,            \* identity of the array tocStore holds (0: the store's own initial value)
    tocActiveId,         \* value held by the tocActiveId writable
    pc,                  \* position of the running handler, "idle" between handlers
    hi,                  \* position of headings.forEach
    permalinkIndexCount, \* local of queryHeadings
    cycle,               \* number of init() calls started
    destroyed,           \* destroy() has returned
    listeners,           \* elements (by selector) on which onWindowScroll is registered
    scopes,              \* per-heading closure variables isDetectTop / isDetectBottom
    evt                  \* the last handler or callback that completed a step

vars == << dom, dom0, args, queryElements, scrollTarget, headings, permalinks,
           permalinksRef, observers, watchers, tocStore, storeRef, tocActiveId,
           pc, hi, permalinkIndexCount, cycle, destroyed, listeners, scopes, evt >>

-----------------------------------------------------------------------------
(* Bounds of the exploration *)

MaxHeadings == 2
MaxUpdates == 1
MaxText == 3

-----------------------------------------------------------------------------
(* Strings *)

UpperAlpha == << "A","B","C","D","E","F","G","H","I","J","K","L","M",
                 "N","O","P","Q","R","S","T","U","V","W","X","Y","Z" >>
LowerAlpha == << "a","b","c","d","e","f","g","h","i","j","k","l","m",
                 "n","o","p","q","r","s","t","u","v","w","x","y","z" >>
Digits == { "0","1","2","3","4","5","6","7","8","9" }
WhiteSpace == { " ", "\t", "\n" }

Range(s) == { s[i] : i \in DOMAIN s }

\* String.prototype.trim
RECURSIVE TrimStart(_)
TrimStart(s) ==
    IF s # << >> /\ Head(s) \in WhiteSpace THEN TrimStart(Tail(s)) ELSE s

RECURSIVE TrimEnd(_)
TrimEnd(s) ==
    IF s # << >> /\ s[Len(s)] \in WhiteSpace
    THEN TrimEnd(SubSeq(s, 1, Len(s) - 1)) ELSE s

Trim(s) == TrimEnd(TrimStart(s))

\* the character class [a-zA-Z0-9 ]
IsKept(c) == c \in Range(UpperAlpha) \cup Range(LowerAlpha) \cup Digits \cup { " " }

\* .replaceAll(/[^a-zA-Z0-9 ]/g, '')
StripSpecial(s) == SelectSeq(s, IsKept)

\* variant: spaces left as they are
Hyphenate_None(s) == s

\* .replaceAll(' ', '-')
Hyphenate(s) == [ i \in DOMAIN s |-> IF s[i] = " " THEN "-" ELSE s[i] ]

LowerChar(c) ==
    IF c \in Range(UpperAlpha)
    THEN LowerAlpha[CHOOSE i \in DOMAIN UpperAlpha : UpperAlpha[i] = c]
    ELSE c

\* .toLowerCase()
ToLowerCase(s) == [ i \in DOMAIN s |-> LowerChar(s[i]) ]

\* what string concatenation makes of the value undefined
UndefinedText == << "u","n","d","e","f","i","n","e","d" >>

\* initial value of the tocActiveId writable: no id written yet
Unset == << "<unset>" >>

-----------------------------------------------------------------------------
(* Inputs: heading elements and argument objects *)

HelloWorld == << "H","e","l","l","o",","," ","W","o","r","l","d","!" >>

\* element kinds the container is built from
ElemKinds ==
    { [ tag |-> "h2", ignore |-> FALSE, id |-> << >>,
        hasChild |-> TRUE, text |-> HelloWorld ],
      [ tag |-> "h3", ignore |-> FALSE, id |-> << "t","o","p" >>,
        hasChild |-> TRUE, text |-> << " ","U","p"," ","2","\n" >> ],
      [ tag |-> "h2", ignore |-> TRUE, id |-> << >>,
        hasChild |-> TRUE, text |-> << "N","o" >> ],
      [ tag |-> "h3", ignore |-> FALSE, id |-> << >>,
        hasChild |-> FALSE, text |-> << >> ] }

Containers == UNION { [ 1..n -> ElemKinds ] : n \in 0..MaxHeadings }

DefaultQuery == { "h2", "h3", "h4", "h5", "h6" }

\* TOCCrawlerArgs objects handed to the action; an absent option is the
\* empty set / empty string, which the code treats as falsy
NoArgs == [ mode |-> "none", queryElements |-> {}, scrollTarget |-> << >>,
            prefix |-> << >>, suffix |-> << >> ]

ArgsSet ==
    { NoArgs,
      [ NoArgs EXCEPT !.mode = "generate", !.prefix = << "s","e","c" >>,
                      !.suffix = << "1" >> ],
      [ NoArgs EXCEPT !.queryElements = { "h2" } ],
      [ NoArgs EXCEPT !.mode = "generate", !.queryElements = { "h2", "h3" },
                      !.scrollTarget = << "#","p" >> ] }

\* IntersectionObserverEntry as far as the callback reads it.  Without
\* rootBounds neither comparison can be true; with threshold 1 an
\* intersecting target lies wholly inside the root.
Entries ==
    { en \in [ isIntersecting : BOOLEAN,
               rootBounds     : BOOLEAN,   \* entry.rootBounds is not null
               aboveTop       : BOOLEAN,   \* boundingClientRect.top < rootBounds.top
               belowBottom    : BOOLEAN ]  \* boundingClientRect.bottom >= rootBounds.bottom
        : (en.isIntersecting \/ ~ en.rootBounds) => (~ en.aboveTop /\ ~ en.belowBottom) }

-----------------------------------------------------------------------------
(* Pure parts of queryHeadings *)

\* node.querySelectorAll(queryElements): positions of the matching elements
QuerySelectorAll(d, sel) ==
    LET Match(i) == d[i].tag \in sel
        RECURSIVE Collect(_)
        Collect(i) == IF i > Len(d) THEN << >>
                      ELSE IF Match(i) THEN << i >> \o Collect(i + 1)
                      ELSE Collect(i + 1)
    IN Collect(1)

\* variants: the ignore marker not honoured / the id test left out
IsIgnored_Never(el) == FALSE
NeedsId_AnyId(a, el) == a.mode = "generate"

\* elemHeading.hasAttribute('data-toc-ignore')
IsIgnored(el) == el.ignore

\* args?.mode === 'generate' && !elemHeading.id
NeedsId(a, el) == a.mode = "generate" /\ el.id = << >>

\* elemHeading.firstChild?.textContent?.trim()....toLowerCase(); undefined
\* without a first child, which the concatenation turns into "undefined"
Slug(el) ==
    IF el.hasChild THEN ToLowerCase(Hyphenate(StripSpecial(Trim(el.text))))
    ELSE UndefinedText

NewHeadingId(a, el) ==
    LET prefix == IF a.prefix # << >> THEN a.prefix \o << "-" >> ELSE << >>
        suffix == IF a.suffix # << >> THEN << "-" >> \o a.suffix ELSE << >>
    IN prefix \o Slug(el) \o suffix

\* the element after the id assignment of the forEach body
WithId(a, el) == IF NeedsId(a, el) THEN [ el EXCEPT !.id = NewHeadingId(a, el) ] ELSE el

\* the object pushed to permalinks; node is not a field of TOCHeadingLink:
\* it records the element (position in dom) the descriptor was built from
Descriptor(el, e) ==
    [ element   |-> el.tag,
      id        |-> el.id,
      text      |-> IF el.hasChild THEN Trim(el.text) ELSE << >>,
      isVisible |-> FALSE,
      node      |-> e ]

\* variant: the list of the previous cycle is kept
ResetPermalinks_Keep(pl) == pl

\* permalinks = []
ResetPermalinks(pl) == << >>

\* obs.disconnect() for every obs of a list
Disconnect(ws, obs) ==
    [ w \in DOMAIN ws |->
        IF w \in Range(obs) THEN [ ws[w] EXCEPT !.connected = FALSE ] ELSE ws[w] ]

\* variants of the two loops: nothing disconnected / the first entry left out
ResetWatchers_Leak(ws, obs) == ws
ResetWatchers_SkipFirst(ws, obs) ==
    IF obs = << >> THEN ws ELSE Disconnect(ws, Tail(obs))
DestroyWatchers_SkipFirst(ws, obs) ==
    IF obs = << >> THEN ws ELSE Disconnect(ws, Tail(obs))

\* queryHeadings: for (const obs of observers) obs.disconnect()
ResetWatchers(ws, obs) == Disconnect(ws, obs)

\* destroy: for (const obs of observers) obs.disconnect()
DestroyWatchers(ws, obs) == Disconnect(ws, obs)

-----------------------------------------------------------------------------
(* The observer callback; headingIndex is 0-based as in the code *)

At(pl, i) == pl[i + 1]

Branch(entry) ==
    IF entry.isIntersecting THEN "inside"
    ELSE IF entry.rootBounds /\ entry.aboveTop THEN "outsideTop"
    ELSE IF entry.rootBounds /\ entry.belowBottom THEN "outsideBottom"
    ELSE "none"

SetVisible(pl, headingIndex, v) ==
    [ pl EXCEPT ![headingIndex + 1].isVisible = v ]

\* variants of the three branches: the next heading whether visible or not,
\* the previous heading only when visible, the heading itself unconditionally
OutsideTopActive_Next(pl, headingIndex, active) ==
    IF headingIndex + 1 < Len(pl) THEN At(pl, headingIndex + 1).id ELSE active
OutsideBottomActive_IfVisible(pl, headingIndex, active) ==
    IF headingIndex > 0 /\ At(pl, headingIndex - 1).isVisible
    THEN At(pl, headingIndex - 1).id ELSE active
InsideActive_Always(pl, headingIndex, elemId, active) == elemId

\* outside top: first visible heading after headingIndex becomes active
OutsideTopActive(pl, headingIndex, active) ==
    LET later == { x \in (headingIndex + 1)..(Len(pl) - 1) : At(pl, x).isVisible }
    IN IF later = {} THEN active
       ELSE At(pl, CHOOSE x \in later : \A y \in later : x <= y).id

\* outside bottom: the previous heading becomes active
OutsideBottomActive(pl, headingIndex, active) ==
    IF headingIndex > 0 THEN At(pl, headingIndex - 1).id ELSE active

\* inside: active unless an earlier heading is visible
InsideActive(pl, headingIndex, elemId, active) ==
    LET checkPrevious == ~ \E x \in 0..(headingIndex - 1) : At(pl, x).isVisible
    IN IF checkPrevious THEN elemId ELSE active

-----------------------------------------------------------------------------
(* crawler.ts.  It registers no scroll listener and keeps no per-heading    *)
(* flags: listeners and scopes stay empty.                                 *)
(* Initial state: the closure's locals are set, init() is about to run     *)

Init ==
    /\ dom \in Containers
    /\ dom0 = dom
    /\ args \in ArgsSet
    /\ queryElements = DefaultQuery
    /\ scrollTarget = << "b","o","d","y" >>
    /\ headings = << >>
    /\ permalinks = << >>
    /\ permalinksRef = 0
    /\ observers = << >>
    /\ watchers = << >>
    /\ tocStore = << >>
    /\ storeRef = 0
    /\ tocActiveId = Unset
    /\ pc = "init"
    /\ hi = 1
    /\ permalinkIndexCount = 0
    /\ cycle = 1
    /\ destroyed = FALSE
    /\ listeners = {}
    /\ scopes = << >>
    /\ evt = [ op |-> "start", idx |-> 0, branch |-> "none", prevActive |-> Unset ]

NoEvt(op) == [ op |-> op, idx |-> 0, branch |-> "none", prevActive |-> tocActiveId ]

\* init(), up to the call of queryHeadings
InitBody ==
    /\ pc = "init"
    /\ queryElements' = IF args.queryElements # {} THEN args.queryElements
                        ELSE queryElements
    /\ scrollTarget' = IF args.scrollTarget # << >> THEN args.scrollTarget
                       ELSE scrollTarget
    /\ headings' = QuerySelectorAll(dom, queryElements')
    /\ permalinks' = ResetPermalinks(permalinks)
    /\ permalinksRef' = cycle
    /\ pc' = "query"
    /\ evt' = NoEvt("init")
    /\ UNCHANGED << listeners, scopes >>
    /\ UNCHANGED << dom, dom0, args, observers, watchers, tocStore, storeRef,
                    tocActiveId, hi, permalinkIndexCount, cycle, destroyed >>

\* queryHeadings, before the forEach: the previous observers are disconnected
QueryStart ==
    /\ pc = "query"
    /\ permalinkIndexCount' = 0
    /\ watchers' = ResetWatchers(watchers, observers)
    /\ observers' = << >>
    /\ hi' = 1
    /\ pc' = "each"
    /\ evt' = NoEvt("reset")
    /\ UNCHANGED << listeners, scopes >>
    /\ UNCHANGED << dom, dom0, args, queryElements, scrollTarget, headings, permalinks,
                    permalinksRef, tocStore, storeRef, tocActiveId, cycle, destroyed >>

\* one iteration of headings.forEach on a heading carrying data-toc-ignore
SkipHeading ==
    /\ pc = "each"
    /\ hi <= Len(headings)
    /\ IsIgnored(dom[headings[hi]])
    /\ hi' = hi + 1
    /\ evt' = NoEvt("skip")
    /\ UNCHANGED << listeners, scopes >>
    /\ UNCHANGED << dom, dom0, args, queryElements, scrollTarget, headings, permalinks,
                    permalinksRef, observers, watchers, tocStore, storeRef,
                    tocActiveId, pc, permalinkIndexCount, cycle, destroyed >>

\* one iteration of headings.forEach on any other heading
EachHeading ==
    /\ pc = "each"
    /\ hi <= Len(headings)
    /\ ~ IsIgnored(dom[headings[hi]])
    /\ LET e  == headings[hi]
           el == WithId(args, dom[e])
       IN /\ dom' = [ dom EXCEPT ![e] = el ]
          /\ permalinks' = Append(permalinks, Descriptor(el, e))
          /\ watchers' = Append(watchers,
                 [ cycle |-> cycle, headingIndex |-> permalinkIndexCount,
                   elem |-> e, connected |-> TRUE ])
          /\ observers' = Append(observers, Len(watchers) + 1)
    /\ permalinkIndexCount' = permalinkIndexCount + 1
    /\ hi' = hi + 1
    /\ evt' = NoEvt("each")
    /\ UNCHANGED << listeners, scopes >>
    /\ UNCHANGED << dom0, args, queryElements, scrollTarget, headings, permalinksRef,
                    tocStore, storeRef, tocActiveId, pc, cycle, destroyed >>

\* tocStore.set(permalinks); init() returns
Publish ==
    /\ pc = "each"
    /\ hi > Len(headings)
    /\ tocStore' = permalinks
    /\ storeRef' = permalinksRef
    /\ pc' = "idle"
    /\ evt' = NoEvt("publish")
    /\ UNCHANGED << listeners, scopes >>
    /\ UNCHANGED << dom, dom0, args, queryElements, scrollTarget, headings, permalinks,
                    permalinksRef, observers, watchers, tocActiveId, hi,
                    permalinkIndexCount, cycle, destroyed >>

\* update(newArgs): args = newArgs; init()
Update ==
    /\ pc = "idle"
    /\ ~ destroyed
    /\ cycle <= MaxUpdates
    /\ \E newArgs \in ArgsSet : args' = newArgs
    /\ cycle' = cycle + 1
    /\ pc' = "init"
    /\ evt' = NoEvt("update")
    /\ UNCHANGED << listeners, scopes >>
    /\ UNCHANGED << dom, dom0, queryElements, scrollTarget, headings, permalinks,
                    permalinksRef, observers, watchers, tocStore, storeRef,
                    tocActiveId, hi, permalinkIndexCount, destroyed >>

\* destroy()
Destroy ==
    /\ pc = "idle"
    /\ ~ destroyed
    /\ watchers' = DestroyWatchers(watchers, observers)
    /\ destroyed' = TRUE
    /\ evt' = NoEvt("destroy")
    /\ UNCHANGED << listeners, scopes >>
    /\ UNCHANGED << dom, dom0, args, queryElements, scrollTarget, headings, permalinks,
                    permalinksRef, observers, tocStore, storeRef, tocActiveId,
                    pc, hi, permalinkIndexCount, cycle >>

\* the platform invokes the callback of an observing watcher with one entry
Deliver ==
    /\ pc = "idle"
    /\ \E w \in DOMAIN watchers, entry \in Entries :
         LET headingIndex == watchers[w].headingIndex
             elemId == dom[watchers[w].elem].id
             br == Branch(entry)
             pl == CASE br = "inside" -> SetVisible(permalinks, headingIndex, TRUE)
                     [] br = "outsideTop" -> SetVisible(permalinks, headingIndex, FALSE)
                     [] br = "outsideBottom" -> SetVisible(permalinks, headingIndex, FALSE)
                     [] OTHER -> permalinks
         IN /\ watchers[w].connected
            /\ permalinks' = pl
            /\ tocStore' = IF storeRef = permalinksRef THEN pl ELSE tocStore
            /\ tocActiveId' =
                 CASE br = "inside" -> InsideActive(pl, headingIndex, elemId, tocActiveId)
                   [] br = "outsideTop" -> OutsideTopActive(pl, headingIndex, tocActiveId)
                   [] br = "outsideBottom" ->
                          OutsideBottomActive(permalinks, headingIndex, tocActiveId)
                   [] OTHER -> tocActiveId
            /\ evt' = [ op |-> "deliver", idx |-> headingIndex, branch |-> br,
                        prevActive |-> tocActiveId ]
    /\ UNCHANGED << listeners, scopes >>
    /\ UNCHANGED << dom, dom0, args, queryElements, scrollTarget, headings, permalinksRef,
                    observers, watchers, storeRef, pc, hi, permalinkIndexCount,
                    cycle, destroyed >>

\* the region of a watcher that is not observing crosses the root's edge:
\* the platform invokes no callback
Unobserved ==
    /\ pc = "idle"
    /\ \E w \in DOMAIN watchers :
         /\ ~ watchers[w].connected
         /\ evt' = NoEvt("unobserved")
    /\ UNCHANGED << listeners, scopes >>
    /\ UNCHANGED << dom, dom0, args, queryElements, scrollTarget, headings,
                    permalinks, permalinksRef, observers, watchers, tocStore,
                    storeRef, tocActiveId, pc, hi, permalinkIndexCount, cycle,
                    destroyed >>

Next ==
    \/ InitBody
    \/ QueryStart
    \/ SkipHeading
    \/ EachHeading
    \/ Publish
    \/ Update
    \/ Destroy
    \/ Deliver
    \/ Unobserved

Spec == Init /\ [][Next]_vars

-----------------------------------------------------------------------------
(* crawler.ts on containers whose first heading has no id and an arbitrary *)
(* short text (or "Hello, World!"), followed by an ignored heading.        *)

TextAlphabet == { "A", "b", "2", " ", "!", "\n" }

Texts == UNION { [ 1..n -> TextAlphabet ] : n \in 0..MaxText } \cup { HelloWorld }

TextContainers ==
    { << [ tag |-> "h2", ignore |-> FALSE, id |-> << >>, hasChild |-> TRUE, text |-> t ],
         [ tag |-> "h2", ignore |-> TRUE, id |-> << >>, hasChild |-> TRUE,
           text |-> << "N","o" >> ] >> : t \in Texts }

InitText ==
    /\ dom \in TextContainers
    /\ dom0 = dom
    /\ args \in ArgsSet
    /\ queryElements = DefaultQuery
    /\ scrollTarget = << "b","o","d","y" >>
    /\ headings = << >>
    /\ permalinks = << >>
    /\ permalinksRef = 0
    /\ observers = << >>
    /\ watchers = << >>
    /\ tocStore = << >>
    /\ storeRef = 0
    /\ tocActiveId = Unset
    /\ pc = "init"
    /\ hi = 1
    /\ permalinkIndexCount = 0
    /\ cycle = 1
    /\ destroyed = FALSE
    /\ listeners = {}
    /\ scopes = << >>
    /\ evt = [ op |-> "start", idx |-> 0, branch |-> "none", prevActive |-> Unset ]

SpecText == InitText /\ [][Next]_vars

-----------------------------------------------------------------------------
(* The deferred-observation variant with a middle, a top and a bottom      *)
(* watcher per heading.  Watchers are constructed by queryHeadings but     *)
(* start observing only in onWindowScroll; init() disconnects the old      *)
(* ones.  A watcher watches the heading's next sibling, which must carry   *)
(* data-toc-content.                                                       *)

\* element kinds: content tells whether the next element sibling carries
\* data-toc-content
P0_ElemKinds ==
    { [ tag |-> "h2", ignore |-> FALSE, id |-> << "a" >>,
        hasChild |-> TRUE, text |-> << "A" >>, content |-> TRUE ],
      [ tag |-> "h3", ignore |-> FALSE, id |-> << "b" >>,
        hasChild |-> TRUE, text |-> << "B" >>, content |-> FALSE ],
      [ tag |-> "h2", ignore |-> FALSE, id |-> << >>,
        hasChild |-> TRUE, text |-> << "U","p"," ","2" >>, content |-> TRUE ],
      [ tag |-> "h2", ignore |-> TRUE, id |-> << >>,
        hasChild |-> TRUE, text |-> << "N","o" >>, content |-> TRUE ] }

P0_Containers == UNION { [ 1..n -> P0_ElemKinds ] : n \in 0..MaxHeadings }

\* the elements a scrollTarget selector of the model can name
ScrollTargets == { << "b","o","d","y" >>, << "#","p" >> }

\* IntersectionObserverEntry as far as the three callbacks read it; beyond
\* is the callback's own comparison: boundingClientRect.y < topBounds for
\* the top watcher, boundingClientRect.bottom > bottomBounds for the bottom
\* watcher
P0_Entries == [ isIntersecting : BOOLEAN, beyond : BOOLEAN ]

\* nextSibling?.hasAttribute('data-toc-content')
HasContent(el) == el.content

\* init: for (const obs of observers) obs.observer.disconnect()
P0_ResetWatchers(ws, obs) == Disconnect(ws, obs)

\* destroy: for (const obs of observers) obs.observer.disconnect()
P0_DestroyWatchers(ws, obs) == Disconnect(ws, obs)

\* onWindowScroll: obsItem.observer.observe(obsItem.element) for every item
Observe(ws, obs) ==
    [ w \in DOMAIN ws |->
        IF w \in Range(obs) THEN [ ws[w] EXCEPT !.connected = TRUE ] ELSE ws[w] ]

\* the three observers one forEach iteration constructs, none observing yet
P0_NewWatchers(cy, headingIndex, e, sc) ==
    [ k \in 1..3 |->
        [ cycle |-> cy, headingIndex |-> headingIndex, elem |-> e,
          connected |-> FALSE, scope |-> sc,
          kind |-> << "middle", "top", "bottom" >>[k] ] ]

\* permalinks[i] of a 0-based index i is undefined outside the array
InBounds(pl, i) == 0 <= i /\ i < Len(pl)

\* One callback run: the value tocActiveId has afterwards, the flags of the
\* heading's closure afterwards, whether tocActiveId.set was called and
\* whether reading .id of undefined raised a TypeError.
P0_Callback(kind, entry, sc, headingIndex, elemId, pl, active) ==
    LET same == [ active |-> active, scope |-> sc, wrote |-> FALSE, threw |-> FALSE ]
        own(s) == [ active |-> elemId, scope |-> s, wrote |-> TRUE, threw |-> FALSE ]
        other(i, s) ==
            IF InBounds(pl, i)
            THEN [ active |-> At(pl, i).id, scope |-> s, wrote |-> TRUE, threw |-> FALSE ]
            ELSE [ same EXCEPT !.threw = TRUE ]
    IN CASE kind = "middle" ->
              IF entry.isIntersecting /\ ~ sc.isDetectTop /\ ~ sc.isDetectBottom
              THEN own(sc) ELSE same
         [] kind = "top" ->
              IF entry.isIntersecting THEN own([ sc EXCEPT !.isDetectTop = TRUE ])
              ELSE IF sc.isDetectTop /\ entry.beyond
              THEN other(headingIndex + 1, [ sc EXCEPT !.isDetectTop = FALSE ])
              ELSE same
         [] kind = "bottom" ->
              IF entry.isIntersecting THEN own([ sc EXCEPT !.isDetectBottom = TRUE ])
              ELSE IF sc.isDetectBottom /\ entry.beyond
              THEN other(headingIndex - 1, [ sc EXCEPT !.isDetectBottom = FALSE ])
              ELSE same

P0_Evt(op) ==
    [ op |-> op, idx |-> 0, branch |-> "none", prevActive |-> tocActiveId,
      wrote |-> FALSE, target |-> << >> ]

P0_Init ==
    /\ dom \in P0_Containers
    /\ dom0 = dom
    /\ args \in ArgsSet
    /\ queryElements = DefaultQuery
    /\ scrollTarget = << "b","o","d","y" >>
    /\ headings = << >>
    /\ permalinks = << >>
    /\ permalinksRef = 0
    /\ observers = << >>
    /\ watchers = << >>
    /\ tocStore = << >>
    /\ storeRef = 0
    /\ tocActiveId = Unset
    /\ pc = "init"
    /\ hi = 1
    /\ permalinkIndexCount = 0
    /\ cycle = 1
    /\ destroyed = FALSE
    /\ listeners = {}
    /\ scopes = << >>
    /\ evt = [ op |-> "start", idx |-> 0, branch |-> "none", prevActive |-> Unset,
               wrote |-> FALSE, target |-> << >> ]

\* init() up to the forEach of queryHeadings: the old observers are
\* disconnected here
P0_InitBody ==
    /\ pc = "init"
    /\ queryElements' = IF args.queryElements # {} THEN args.queryElements
                        ELSE queryElements
    /\ scrollTarget' = IF args.scrollTarget # << >> THEN args.scrollTarget
                       ELSE scrollTarget
    /\ headings' = QuerySelectorAll(dom, queryElements')
    /\ permalinks' = << >>
    /\ permalinksRef' = cycle
    /\ watchers' = P0_ResetWatchers(watchers, observers)
    /\ observers' = << >>
    /\ permalinkIndexCount' = 0
    /\ hi' = 1
    /\ pc' = "each"
    /\ evt' = P0_Evt("init")
    /\ UNCHANGED << dom, dom0, args, tocStore, storeRef, tocActiveId, cycle,
                    destroyed, listeners, scopes >>

\* forEach iteration on a heading carrying data-toc-ignore
P0_SkipHeading ==
    /\ pc = "each"
    /\ hi <= Len(headings)
    /\ IsIgnored(dom[headings[hi]])
    /\ hi' = hi + 1
    /\ evt' = P0_Evt("skip")
    /\ UNCHANGED << dom, dom0, args, queryElements, scrollTarget, headings, permalinks,
                    permalinksRef, observers, watchers, tocStore, storeRef,
                    tocActiveId, pc, permalinkIndexCount, cycle, destroyed,
                    listeners, scopes >>

\* forEach iteration on any other heading: the descriptor is pushed; the
\* iteration returns before counting the heading when it has no content
\* sibling, and constructs the three observers otherwise
P0_EachHeading ==
    /\ pc = "each"
    /\ hi <= Len(headings)
    /\ ~ IsIgnored(dom[headings[hi]])
    /\ LET e  == headings[hi]
           el == WithId(args, dom[e])
       IN /\ dom' = [ dom EXCEPT ![e] = el ]
          /\ permalinks' = Append(permalinks, Descriptor(el, e))
          /\ IF HasContent(el)
             THEN /\ scopes' = Append(scopes,
                         [ isDetectTop |-> FALSE, isDetectBottom |-> FALSE ])
                  /\ watchers' = watchers \o
                         P0_NewWatchers(cycle, permalinkIndexCount, e, Len(scopes) + 1)
                  /\ observers' = observers \o
                         [ k \in 1..3 |-> Len(watchers) + k ]
                  /\ permalinkIndexCount' = permalinkIndexCount + 1
             ELSE UNCHANGED << scopes, watchers, observers, permalinkIndexCount >>
    /\ hi' = hi + 1
    /\ evt' = P0_Evt("each")
    /\ UNCHANGED << dom0, args, queryElements, scrollTarget, headings, permalinksRef,
                    tocStore, storeRef, tocActiveId, pc, cycle, destroyed, listeners >>

\* after the forEach: tocActiveId.set(permalinks[0].id); tocStore.set(permalinks);
\* the constructor then registers onWindowScroll on the scroll target
P0_Publish ==
    /\ pc = "each"
    /\ hi > Len(headings)
    /\ permalinks # << >>
    /\ tocActiveId' = At(permalinks, 0).id
    /\ tocStore' = permalinks
    /\ storeRef' = permalinksRef
    /\ listeners' = IF cycle = 1 THEN listeners \cup { scrollTarget } ELSE listeners
    /\ pc' = "idle"
    /\ evt' = P0_Evt("publish")
    /\ UNCHANGED << dom, dom0, args, queryElements, scrollTarget, headings, permalinks,
                    permalinksRef, observers, watchers, hi, permalinkIndexCount,
                    cycle, destroyed, scopes >>

\* after the forEach with an empty list: permalinks[0] is undefined and
\* reading its id raises a TypeError.  Raised in the constructor, no action
\* object and no listener come into being; raised in update(), the
\* exception leaves update() with the stores untouched.
P0_InitThrows ==
    /\ pc = "each"
    /\ hi > Len(headings)
    /\ permalinks = << >>
    /\ pc' = IF cycle = 1 THEN "failed" ELSE "idle"
    /\ evt' = P0_Evt("initThrew")
    /\ UNCHANGED << dom, dom0, args, queryElements, scrollTarget, headings, permalinks,
                    permalinksRef, observers, watchers, tocStore, storeRef,
                    tocActiveId, hi, permalinkIndexCount, cycle, destroyed,
                    listeners, scopes >>

\* update(newArgs): args = newArgs; init()
P0_Update ==
    /\ pc = "idle"
    /\ ~ destroyed
    /\ cycle <= MaxUpdates
    /\ \E newArgs \in ArgsSet : args' = newArgs
    /\ cycle' = cycle + 1
    /\ pc' = "init"
    /\ evt' = P0_Evt("update")
    /\ UNCHANGED << dom, dom0, queryElements, scrollTarget, headings, permalinks,
                    permalinksRef, observers, watchers, tocStore, storeRef,
                    tocActiveId, hi, permalinkIndexCount, destroyed, listeners, scopes >>

\* destroy(): disconnect, then remove the listener from the element the
\* current scrollTarget names
P0_Destroy ==
    /\ pc = "idle"
    /\ ~ destroyed
    /\ watchers' = P0_DestroyWatchers(watchers, observers)
    /\ listeners' = listeners \ { scrollTarget }
    /\ destroyed' = TRUE
    /\ evt' = P0_Evt("destroy")
    /\ UNCHANGED << dom, dom0, args, queryElements, scrollTarget, headings, permalinks,
                    permalinksRef, observers, tocStore, storeRef, tocActiveId,
                    pc, hi, permalinkIndexCount, cycle, scopes >>

\* a scroll event on element t.  With onWindowScroll registered on t every
\* item of observers starts observing and the listener is removed from the
\* element the current scrollTarget names; without it nothing runs.
P0_Scroll ==
    /\ pc = "idle"
    /\ \E t \in ScrollTargets :
         /\ IF t \in listeners
            THEN /\ watchers' = Observe(watchers, observers)
                 /\ listeners' = listeners \ { scrollTarget }
            ELSE UNCHANGED << watchers, listeners >>
         /\ evt' = [ P0_Evt("scroll") EXCEPT
                       !.branch = IF t \in listeners THEN "listener" ELSE "none",
                       !.target = t ]
    /\ UNCHANGED << dom, dom0, args, queryElements, scrollTarget, headings, permalinks,
                    permalinksRef, observers, tocStore, storeRef, tocActiveId,
                    pc, hi, permalinkIndexCount, cycle, destroyed, scopes >>

\* the platform invokes the callback of an observing watcher with one entry
P0_Deliver ==
    /\ pc = "idle"
    /\ \E w \in DOMAIN watchers, entry \in P0_Entries :
         LET ob == watchers[w]
             r  == P0_Callback(ob.kind, entry, scopes[ob.scope], ob.headingIndex,
                               dom[ob.elem].id, permalinks, tocActiveId)
         IN /\ ob.connected
            /\ tocActiveId' = r.active
            /\ scopes' = [ scopes EXCEPT ![ob.scope] = r.scope ]
            /\ evt' = [ op |-> IF r.threw THEN "callbackThrew" ELSE "deliver",
                        idx |-> ob.headingIndex, branch |-> ob.kind,
                        prevActive |-> tocActiveId, wrote |-> r.wrote,
                        target |-> << >> ]
    /\ UNCHANGED << dom, dom0, args, queryElements, scrollTarget, headings, permalinks,
                    permalinksRef, observers, watchers, tocStore, storeRef,
                    pc, hi, permalinkIndexCount, cycle, destroyed, listeners >>

P0_Next ==
    \/ P0_InitBody
    \/ P0_SkipHeading
    \/ P0_EachHeading
    \/ P0_Publish
    \/ P0_InitThrows
    \/ P0_Update
    \/ P0_Destroy
    \/ P0_Scroll
    \/ P0_Deliver

SpecP0 == P0_Init /\ [][P0_Next]_vars

-----------------------------------------------------------------------------
(* Vocabulary of the properties *)

\* the watchers that are observing
Connected == { w \in DOMAIN watchers : watchers[w].connected }

\* the headings of the container that match the selector in force and do
\* not carry data-toc-ignore
Qualifying == { e \in DOMAIN dom : dom[e].tag \in queryElements /\ ~ dom[e].ignore }

\* the k-th qualifying heading in document order
NthQualifying(k) ==
    CHOOSE e \in Qualifying : Cardinality({ f \in Qualifying : f < e }) = k - 1

Settled == pc = "idle"

-----------------------------------------------------------------------------
\* C1: once destroy() has returned no watcher is observing, and no step taken
\* afterwards (in particular no crossing of a formerly watched heading)
\* changes tocActiveId or the published heading list.
C1_QuietAfterDestroy ==
    [][ /\ destroyed' => Connected' = {}
        /\ destroyed => /\ tocActiveId' = tocActiveId
                         /\ tocStore' = tocStore
                         /\ permalinks' = permalinks ]_vars

\* a heading crossed after teardown, following an update and delivered events
C1_Witness ==
    /\ destroyed
    /\ evt.op = "unobserved"
    /\ cycle >= 2
    /\ \E k \in DOMAIN tocStore : tocStore[k].isVisible

\* C2: between handlers and before destroy(), the observing watchers are
\* exactly one per qualifying heading of the configuration in force: as many
\* as there are such headings, none on another element, no heading twice.
C2_OneWatcherPerHeading ==
    (Settled /\ ~ destroyed) =>
        /\ Cardinality(Connected) = Cardinality(Qualifying)
        /\ \A w \in Connected : watchers[w].elem \in Qualifying
        /\ \A e \in Qualifying :
              Cardinality({ w \in Connected : watchers[w].elem = e }) = 1

\* after an update, with headings watched now and watchers of the earlier cycle around
C2_Witness ==
    /\ Settled /\ ~ destroyed
    /\ cycle >= 2
    /\ Qualifying # {}
    /\ \E w \in DOMAIN watchers : watchers[w].cycle < cycle

\* C3: at every step, also inside init(), a watcher of an earlier
\* initialization cycle is no longer observing once a watcher of a later
\* cycle exists.
C3_OldDisconnectedFirst ==
    \A w1, w2 \in DOMAIN watchers :
        watchers[w1].cycle < watchers[w2].cycle => ~ watchers[w1].connected

\* in the middle of the forEach of a re-initialization, the first new watcher created
C3_Witness ==
    /\ pc = "each"
    /\ hi <= Len(headings)
    /\ \E w1, w2 \in DOMAIN watchers : watchers[w1].cycle < watchers[w2].cycle


-----------------------------------------------------------------------------
\* the last step was the callback of heading i (0-based) taking branch br
Delivered(br) == evt.op = "deliver" /\ evt.branch = br

\* the headings before / after heading i that are marked visible
VisibleBefore(i) == { x \in 0..(i - 1) : At(permalinks, x).isVisible }
VisibleAfter(i) == { x \in (i + 1)..(Len(permalinks) - 1) : At(permalinks, x).isVisible }

\* C4: when init() has returned with a non-empty heading list and no
\* intersection entry has been delivered since, tocActiveId is the id of the
\* first descriptor of the published list.
C4_FirstHeadingActive ==
    (Settled /\ evt.op = "publish" /\ tocStore # << >>) =>
        tocActiveId = tocStore[1].id

\* C5 as stated: after the callback of heading i ran with isIntersecting,
\* tocActiveId is heading i's id, whatever else is visible.
C5_EnteringBecomesActive ==
    Delivered("inside") => tocActiveId = At(permalinks, evt.idx).id

\* C5 amended: after the callback of heading i ran with isIntersecting,
\* tocActiveId is heading i's id if no heading before i is marked visible,
\* and is what it was before the callback otherwise.
C5_EnteringUnlessEarlierVisible ==
    Delivered("inside") =>
        tocActiveId = IF VisibleBefore(evt.idx) = {}
                      THEN At(permalinks, evt.idx).id
                      ELSE evt.prevActive

\* a heading that is not the first one enters and takes over
C5_Witness ==
    /\ Delivered("inside")
    /\ evt.idx >= 1
    /\ VisibleBefore(evt.idx) = {}
    /\ tocActiveId = At(permalinks, evt.idx).id
    /\ tocActiveId # evt.prevActive

\* C6 as stated: heading i was active, is not the last one and left upward:
\* tocActiveId is the id of heading i + 1.
C6_NextOnLeavingUp ==
    ( /\ Delivered("outsideTop")
      /\ evt.prevActive = At(permalinks, evt.idx).id
      /\ evt.idx + 1 < Len(permalinks) ) =>
        tocActiveId = At(permalinks, evt.idx + 1).id

\* C6 amended: heading i was active, is not the last one and left upward:
\* tocActiveId is the id of the first heading after i that is marked
\* visible, and is unchanged when no heading after i is marked visible.
C6_NextVisibleOnLeavingUp ==
    ( /\ Delivered("outsideTop")
      /\ evt.prevActive = At(permalinks, evt.idx).id
      /\ evt.idx + 1 < Len(permalinks) ) =>
        tocActiveId =
            IF VisibleAfter(evt.idx) = {} THEN evt.prevActive
            ELSE At(permalinks,
                    CHOOSE x \in VisibleAfter(evt.idx) :
                        \A y \in VisibleAfter(evt.idx) : x <= y).id

\* the active heading left upward and a later, visible heading took over
C6_Witness ==
    /\ Delivered("outsideTop")
    /\ evt.prevActive = At(permalinks, evt.idx).id
    /\ evt.idx + 1 < Len(permalinks)
    /\ VisibleAfter(evt.idx) # {}
    /\ tocActiveId # evt.prevActive

\* C7: heading i was active and left downward: tocActiveId is the id of
\* heading i - 1, and is unchanged when i is the first heading.
C7_PreviousOnLeavingDown ==
    ( /\ Delivered("outsideBottom")
      /\ evt.prevActive = At(permalinks, evt.idx).id ) =>
        tocActiveId = IF evt.idx > 0 THEN At(permalinks, evt.idx - 1).id
                      ELSE evt.prevActive

\* the active heading left downward and the heading before it, not marked
\* visible, took over
C7_Witness ==
    /\ Delivered("outsideBottom")
    /\ evt.prevActive = At(permalinks, evt.idx).id
    /\ evt.idx > 0
    /\ ~ At(permalinks, evt.idx - 1).isVisible
    /\ tocActiveId = At(permalinks, evt.idx - 1).id
    /\ tocActiveId # evt.prevActive

-----------------------------------------------------------------------------
\* C8: whenever init() has returned, tocStore holds the array created by the
\* latest init() call, with exactly one descriptor per qualifying heading,
\* in document order, carrying that heading's tag and id.
C8_ListIsQualifyingInOrder ==
    Settled =>
        /\ storeRef = cycle
        /\ Len(tocStore) = Cardinality(Qualifying)
        /\ \A k \in DOMAIN tocStore :
              LET e == NthQualifying(k)
              IN /\ tocStore[k].node = e
                 /\ tocStore[k].element = dom[e].tag
                 /\ tocStore[k].id = dom[e].id

\* a re-initialization published a list that leaves an element of the container out
C8_Witness ==
    /\ Settled
    /\ cycle >= 2
    /\ tocStore # << >>
    /\ Len(tocStore) < Len(dom)

\* C9: a heading carrying data-toc-ignore keeps the id it came with, is
\* watched by no watcher ever created and has no descriptor in permalinks or
\* in the published list, at every step.
C9_IgnoredUntouched ==
    \A e \in DOMAIN dom :
        dom[e].ignore =>
            /\ dom[e].id = dom0[e].id
            /\ \A w \in DOMAIN watchers : watchers[w].elem # e
            /\ \A k \in DOMAIN permalinks : permalinks[k].node # e
            /\ \A k \in DOMAIN tocStore : tocStore[k].node # e

\* generate mode ran twice over a selector matching an ignored heading
C9_Witness ==
    /\ Settled
    /\ cycle >= 2
    /\ args.mode = "generate"
    /\ tocStore # << >>
    /\ \E e \in DOMAIN dom : dom[e].ignore /\ dom[e].tag \in queryElements

\* C10: a step changes the id of a heading only in generate mode and only
\* if that id was empty.
C10_IdWrittenOnlyWhenEmpty ==
    [][ \A e \in DOMAIN dom :
            dom'[e].id # dom[e].id => (args.mode = "generate" /\ dom[e].id = << >>)
      ]_vars

\* a heading processed again in generate mode keeps the id generated under
\* the prefix and suffix of an earlier cycle
C10_Witness ==
    /\ Settled
    /\ cycle >= 2
    /\ args.mode = "generate"
    /\ \E e \in Qualifying :
          /\ dom0[e].id = << >>
          /\ dom[e].id # << >>
          /\ dom[e].id # NewHeadingId(args, dom0[e])

-----------------------------------------------------------------------------
\* the id the documentation describes, character by character: the text
\* between its first and last non-blank character, letters lowercased,
\* digits kept, each space a hyphen, anything else dropped
TextCore(t) ==
    LET solid == { i \in DOMAIN t : t[i] \notin WhiteSpace }
    IN IF solid = {} THEN << >>
       ELSE SubSeq(t, CHOOSE i \in solid : \A j \in solid : i <= j,
                      CHOOSE i \in solid : \A j \in solid : i >= j)

RECURSIVE SlugOf(_)
SlugOf(t) ==
    IF t = << >> THEN << >>
    ELSE LET c == Head(t)
             out == IF c = " " THEN << "-" >>
                    ELSE IF c \in Digits \/ c \in Range(LowerAlpha) THEN << c >>
                    ELSE IF c \in Range(UpperAlpha) THEN << LowerChar(c) >>
                    ELSE << >>
         IN out \o SlugOf(Tail(t))

ExpectedId(prefix, t, suffix) ==
    (IF prefix = << >> THEN << >> ELSE prefix \o << "-" >>)
    \o SlugOf(TextCore(t))
    \o (IF suffix = << >> THEN << >> ELSE << "-" >> \o suffix)

HelloWorldId == << "h","e","l","l","o","-","w","o","r","l","d" >>
SecHelloWorld1Id == << "s","e","c","-" >> \o HelloWorldId \o << "-","1" >>

\* C11: the forEach iteration on a heading with an empty id and a first
\* child of text T, in generate mode, leaves the heading with the id
\* P + slug(T) + S and pushes a descriptor with that id; "Hello, World!"
\* gives hello-world, and sec-hello-world-1 with prefix sec and suffix 1.
C11_GeneratedId ==
    [][ \A e \in DOMAIN dom :
          ( /\ pc = "each" /\ hi <= Len(headings) /\ headings[hi] = e
            /\ ~ dom[e].ignore
            /\ args.mode = "generate"
            /\ dom[e].id = << >>
            /\ dom[e].hasChild ) =>
              /\ dom'[e].id = ExpectedId(args.prefix, dom[e].text, args.suffix)
              /\ permalinks'[Len(permalinks')].id = dom'[e].id
              /\ (dom[e].text = HelloWorld /\ args.prefix = << >> /\ args.suffix = << >>)
                    => dom'[e].id = HelloWorldId
              /\ ( /\ dom[e].text = HelloWorld
                   /\ args.prefix = << "s","e","c" >>
                   /\ args.suffix = << "1" >> ) => dom'[e].id = SecHelloWorld1Id
      ]_vars

\* "Hello, World!" published as sec-hello-world-1
C11_Witness ==
    /\ Settled
    /\ args.mode = "generate"
    /\ args.prefix = << "s","e","c" >>
    /\ dom0[1].text = HelloWorld
    /\ dom[1].id = SecHelloWorld1Id
    /\ tocStore # << >>
    /\ tocStore[1].id = SecHelloWorld1Id

-----------------------------------------------------------------------------
\* a heading without extractable text: no first child, or only blanks
NoText(el) == ~ el.hasChild \/ TextCore(el.text) = << >>

\* C12: whenever init() has returned, every qualifying heading that came
\* without an id and without extractable text has a descriptor in the
\* published list, and that descriptor's id is the empty string.
C12_NoTextGivesEmptyId ==
    Settled =>
        \A e \in Qualifying :
            (dom0[e].id = << >> /\ NoText(dom0[e])) =>
                /\ \E k \in DOMAIN tocStore : tocStore[k].node = e
                /\ \A k \in DOMAIN tocStore :
                      tocStore[k].node = e => tocStore[k].id = << >>

\* C13: whenever init() has returned in generate mode on a container whose
\* own ids are pairwise distinct, the descriptors of headings that have a
\* first text node carry pairwise distinct ids.
C13_IdsDistinct ==
    ( /\ Settled
      /\ args.mode = "generate"
      /\ \A e, f \in DOMAIN dom0 :
            (e # f /\ dom0[e].id # << >>) => dom0[e].id # dom0[f].id ) =>
        \A j, k \in DOMAIN tocStore :
            ( /\ j # k
              /\ dom0[tocStore[j].node].hasChild
              /\ dom0[tocStore[k].node].hasChild ) => tocStore[j].id # tocStore[k].id

\* C17: right after init() no descriptor is marked visible, and right
\* after the callback of heading i ran, isVisible of heading i is the
\* isIntersecting of the entry it was given.
C17_VisibleIsLastIntersecting ==
    /\ (Settled /\ evt.op = "publish") =>
          \A k \in DOMAIN permalinks : ~ permalinks[k].isVisible
    /\ evt.op = "deliver" =>
          At(permalinks, evt.idx).isVisible = (evt.branch = "inside")

\* C19: between handlers, when some heading is marked visible, tocActiveId
\* is the id of the first heading that is marked visible.
C19_LowestVisibleActive ==
    LET visible == { k \in DOMAIN permalinks : permalinks[k].isVisible }
    IN (Settled /\ visible # {}) =>
          tocActiveId = permalinks[CHOOSE k \in visible : \A j \in visible : k <= j].id

-----------------------------------------------------------------------------
(* The deferred-observation variant *)

\* the headings of the current list that have no data-toc-content sibling
Contentless == { k \in DOMAIN permalinks : ~ HasContent(dom[permalinks[k].node]) }

\* the watchers constructed by the latest init()
Current == { w \in DOMAIN watchers : watchers[w].cycle = cycle }

\* C14: in the deferred-observation variant a heading whose next sibling
\* lacks data-toc-content is listed in the published list, has no watcher,
\* and no callback ever writes its id to tocActiveId.
C14_ContentlessNeverActivated ==
    /\ Settled /\ evt.op = "publish" =>
          \A e \in Qualifying : ~ HasContent(dom[e]) =>
              /\ \E k \in DOMAIN tocStore : tocStore[k].node = e
              /\ \A w \in Current : watchers[w].elem # e
    /\ (evt.op = "deliver" /\ evt.wrote) =>
          \A k \in Contentless : tocActiveId # permalinks[k].id

\* C15: in the deferred-observation variant the headingIndex a callback
\* captured is the position of its heading's descriptor in the published
\* list.
C15_IndexIsListPosition ==
    (Settled /\ evt.op = "publish") =>
        \A w \in Current :
            /\ InBounds(tocStore, watchers[w].headingIndex)
            /\ At(tocStore, watchers[w].headingIndex).node = watchers[w].elem

\* C16: with no qualifying heading in the container, init() and update()
\* return without raising and publish the empty list.
C16_EmptyListPublished ==
    /\ evt.op # "initThrew"
    /\ (Settled /\ Qualifying = {}) => (tocStore = << >> /\ storeRef = cycle)

\* C18: no watcher callback raises, and every value a callback writes to
\* tocActiveId is the id of a descriptor of the list.
C18_CallbackLookupsInBounds ==
    /\ evt.op # "callbackThrew"
    /\ (evt.op = "deliver" /\ evt.wrote) =>
          \E k \in DOMAIN permalinks : permalinks[k].id = tocActiveId

\* C20: a watcher starts observing only in a scroll event, and a scroll
\* event on the scroll target, at any time after an init() and before
\* destroy(), leaves every watcher of the current cycle observing.
C20_ScrollStartsObservation ==
    [][ /\ (\E w \in DOMAIN watchers' :
               /\ watchers'[w].connected
               /\ w \in DOMAIN watchers => ~ watchers[w].connected)
          => evt'.op = "scroll"
        /\ (evt'.op = "scroll" /\ evt'.target = scrollTarget /\ ~ destroyed)
          => \A w \in Current : watchers'[w].connected ]_vars

\* C21: in the deferred-observation variant, once destroy() has run no
\* watcher is observing and onWindowScroll is registered on no element,
\* whatever update() calls and scroll events came before; so no scroll
\* event after destroy() starts observation.
C21_NothingLeftAfterDestroy ==
    destroyed => (Connected = {} /\ listeners = {})

====
